---- MODULE Spec2Model ----
(***************************************************************************)
(* @lykmapipo/env: helpers for reading and coercing environment variables. *)
(*                                                                         *)
(* The Store is process.env.  A JavaScript value is a record tagged by its *)
(* type; a string is a sequence of one-character strings, so that split,   *)
(* trim, number parsing and ordering are computed character by character.  *)
(***************************************************************************)
EXTENDS FiniteSets, Integers, Sequences, TLC

VARIABLES
  env,        \* process.env: a function from the present keys to their values
  called,     \* lodash once(): the wrapped loader has been invoked
  result,     \* lodash once(): the memoized result of the loader
  files,      \* the file system: directory -> content of its .env file
  reads,      \* number of times dotenv read a .env file
  pre,        \* process.env as it was when the last operation was called
  op,         \* the last operation called, with its arguments
  ret         \* what the last operation returned

vars == <<env, called, result, files, reads, pre, op, ret>>

-----------------------------------------------------------------------------
(* JavaScript values *)

Undefined == [t |-> "undefined"]
NaN == [t |-> "NaN"]
Obj == [t |-> "object"]
Str(s) == [t |-> "string", s |-> s]
Num(n) == [t |-> "number", n |-> n]
Bool(b) == [t |-> "boolean", b |-> b]
Arr(a) == [t |-> "array", a |-> a]

isString(v) == v.t = "string"

\* ToBoolean: what `value ? x : y` tests
truthy(v) ==
  CASE v.t = "undefined" -> FALSE
    [] v.t = "NaN" -> FALSE
    [] v.t = "string" -> v.s # <<>>
    [] v.t = "number" -> v.n # 0
    [] v.t = "boolean" -> v.b
    [] OTHER -> TRUE

-----------------------------------------------------------------------------
(* Characters and strings *)

\* the characters in ascending order of their UTF-16 code unit
AsciiOrder ==
  <<" ", ",", "-", ".", "0", "1", "2", "3", "4", "5", "6", "7", "8", "9",
    "A", "B", "C", "D", "E", "F", "G", "H", "I", "J", "K", "L", "M", "N", "O",
    "P", "Q", "R", "S", "T", "U", "V", "W", "X", "Y", "Z", "[", "]", "_",
    "a", "b", "c", "d", "e", "f", "g", "h", "i", "j", "k", "l", "m", "n", "o",
    "p", "q", "r", "s", "t", "u", "v", "w", "x", "y", "z">>

CharCode(c) == CHOOSE i \in 1..Len(AsciiOrder) : AsciiOrder[i] = c

DigitChars == <<"0", "1", "2", "3", "4", "5", "6", "7", "8", "9">>

isDigit(c) == \E i \in 1..Len(DigitChars) : DigitChars[i] = c

DigitValue(c) == (CHOOSE i \in 1..Len(DigitChars) : DigitChars[i] = c) - 1

\* the regular expression class \s
isSpace(c) == c \in {" ", "\t", "\n", "\r"}

\* a < b on strings: lexicographic on code units, a proper prefix is smaller
RECURSIVE StrLess(_, _)
StrLess(a, b) ==
  IF b = <<>> THEN FALSE
  ELSE IF a = <<>> THEN TRUE
  ELSE IF Head(a) = Head(b) THEN StrLess(Tail(a), Tail(b))
  ELSE CharCode(Head(a)) < CharCode(Head(b))

RECURSIVE NumToChars(_)
NumToChars(n) ==
  IF n < 10 THEN <<DigitChars[n + 1]>>
  ELSE NumToChars(n \div 10) \o <<DigitChars[(n % 10) + 1]>>

RECURSIVE Join(_)
Join(strs) ==
  IF strs = <<>> THEN <<>>
  ELSE IF Len(strs) = 1 THEN strs[1]
  ELSE strs[1] \o <<",">> \o Join(Tail(strs))

\* String(value), the conversion process.env applies to every assigned value
RECURSIVE String(_)
String(v) ==
  CASE v.t = "string" -> v.s
    [] v.t = "number" -> NumToChars(v.n)
    [] v.t = "NaN" -> <<"N", "a", "N">>
    [] v.t = "boolean" ->
         IF v.b THEN <<"t", "r", "u", "e">> ELSE <<"f", "a", "l", "s", "e">>
    [] v.t = "undefined" -> <<"u", "n", "d", "e", "f", "i", "n", "e", "d">>
    [] v.t = "array" ->
         Join([i \in 1..Len(v.a) |->
                 IF v.a[i].t = "undefined" THEN <<>> ELSE String(v.a[i])])
    [] OTHER ->
         <<"[", "o", "b", "j", "e", "c", "t", " ", "O", "b", "j", "e", "c", "t", "]">>

-----------------------------------------------------------------------------
(* lodash and @lykmapipo/common helpers *)

\* lodash toString: null and undefined give '', an array joins its elements
toString(v) ==
  CASE v.t = "undefined" -> <<>>
    [] v.t = "array" -> Join([i \in 1..Len(v.a) |-> String(v.a[i])])
    [] OTHER -> String(v)

RECURSIVE trimStart(_)
trimStart(s) ==
  IF s # <<>> /\ isSpace(Head(s)) THEN trimStart(Tail(s)) ELSE s

RECURSIVE trimEnd(_)
trimEnd(s) ==
  IF s # <<>> /\ isSpace(s[Len(s)]) THEN trimEnd(SubSeq(s, 1, Len(s) - 1)) ELSE s

\* trim as a bug would have it: only the leading whitespace is stripped
trimStartOnly(v) == Str(trimStart(toString(v)))

\* lodash trim: toString, then strip /^\s+|\s+$/g
trim(v) == Str(trimEnd(trimStart(toString(v))))

\* String.prototype.split(',')
RECURSIVE split(_)
split(s) ==
  IF \E i \in 1..Len(s) : s[i] = ","
  THEN LET i == CHOOSE j \in 1..Len(s) :
                  s[j] = "," /\ \A h \in 1..(j - 1) : s[h] # ","
       IN <<Str(SubSeq(s, 1, i - 1))>> \o split(SubSeq(s, i + 1, Len(s)))
  ELSE <<Str(s)>>

\* lodash compact: drop the falsy elements
compact(a) == SelectSeq(a, truthy)

\* lodash uniq: keep the first occurrence of every element
RECURSIVE uniq(_)
uniq(a) ==
  IF a = <<>> THEN <<>>
  ELSE LET r == uniq(SubSeq(a, 1, Len(a) - 1))
           x == a[Len(a)]
       IN IF \E i \in 1..Len(r) : r[i] = x THEN r ELSE Append(r, x)

\* the numeric value of a string of digits in the given base
RECURSIVE ParseDigits(_, _)
ParseDigits(s, base) ==
  IF s = <<>> THEN 0
  ELSE ParseDigits(SubSeq(s, 1, Len(s) - 1), base) * base + DigitValue(s[Len(s)])

isBinary(s) ==
  /\ Len(s) >= 3
  /\ s[1] = "0"
  /\ s[2] \in {"b", "B"}
  /\ \A i \in 3..Len(s) : s[i] \in {"0", "1"}

\* lodash toNumber: a number is returned as is, anything else is read as a
\* trimmed string: '' is 0, 0b... is binary, decimal digits are their value
toNumber(v) ==
  CASE v.t = "number" -> v
    [] v.t = "NaN" -> v
    [] v.t = "undefined" -> NaN
    [] v.t = "boolean" -> IF v.b THEN Num(1) ELSE Num(0)
    [] OTHER ->
         LET s == trimEnd(trimStart(String(v)))
         IN IF s = <<>> THEN Num(0)
            ELSE IF isBinary(s) THEN Num(ParseDigits(SubSeq(s, 3, Len(s)), 2))
            ELSE IF \A i \in 1..Len(s) : isDigit(s[i]) THEN Num(ParseDigits(s, 10))
            ELSE NaN

\* lodash orderBy with no iteratee: ascending, by insertion
RECURSIVE insertAscending(_, _)
insertAscending(sorted, x) ==
  IF sorted = <<>> THEN <<x>>
  ELSE IF StrLess(x.s, Head(sorted).s) THEN <<x>> \o sorted
  ELSE <<Head(sorted)>> \o insertAscending(Tail(sorted), x)

RECURSIVE orderBy(_)
orderBy(a) ==
  IF a = <<>> THEN <<>>
  ELSE insertAscending(orderBy(SubSeq(a, 1, Len(a) - 1)), a[Len(a)])

\* @lykmapipo/common sortedUniq: compact, uniq, then order ascending
sortedUniq(a) == orderBy(uniq(compact(a)))

mapToNumber(value) == toNumber(value)

mapToString(value) == Str(toString(value))

-----------------------------------------------------------------------------
(* The .env file and the one-time load *)

\* process.cwd()
Cwd == <<"c", "w", "d">>

\* a .env file is its lines: a KEY=VALUE pair, or a line dotenv's parser skips
\* (blank, comment, or one without KEY=)
Pair(k, v) == [kind |-> "pair", key |-> k, val |-> v]
Junk == [kind |-> "junk"]
Missing == [kind |-> "missing"]
File(lines) == [kind |-> "file", lines |-> lines]

\* dotenv parse: the pairs of the matching lines, a later line winning
RECURSIVE parse(_)
parse(lines) ==
  IF lines = <<>> THEN <<>>
  ELSE LET obj == parse(SubSeq(lines, 1, Len(lines) - 1))
           line == lines[Len(lines)]
       IN IF line.kind = "pair"
          THEN [k \in DOMAIN obj \cup {line.key} |->
                  IF k = line.key THEN line.val ELSE obj[k]]
          ELSE obj

\* process.env.BASE_PATH || process.cwd(), resolved with '.env'
dotenvPath(e) ==
  IF "BASE_PATH" \in DOMAIN e /\ truthy(e["BASE_PATH"])
  THEN e["BASE_PATH"].s
  ELSE Cwd

readFileSync(fs, path) == IF path \in DOMAIN fs THEN fs[path] ELSE Missing

\* dotenv config as the claim has it: a missing file gives an empty result
loadEnvResultEmpty(e, fs) ==
  LET file == readFileSync(fs, dotenvPath(e))
  IN IF file.kind = "missing"
     THEN [t |-> "object", parsed |-> <<>>]
     ELSE [t |-> "object", parsed |-> parse(file.lines)]

\* what dotenv config returns: { parsed }, or { error } when the read throws
loadEnvResult(e, fs) ==
  LET file == readFileSync(fs, dotenvPath(e))
  IN IF file.kind = "missing"
     THEN [t |-> "object", error |-> "ENOENT"]
     ELSE [t |-> "object", parsed |-> parse(file.lines)]

\* dotenv config as a bug would have it: the file overrides process.env
loadEnvStoreOverride(e, fs) ==
  LET file == readFileSync(fs, dotenvPath(e))
      parsed == IF file.kind = "missing" THEN <<>> ELSE parse(file.lines)
  IN [k \in DOMAIN e \cup DOMAIN parsed |->
        IF k \in DOMAIN parsed THEN Str(parsed[k]) ELSE e[k]]

\* process.env after dotenv config: a parsed key is written only if
\* process.env does not have it
loadEnvStore(e, fs) ==
  LET file == readFileSync(fs, dotenvPath(e))
      parsed == IF file.kind = "missing" THEN <<>> ELSE parse(file.lines)
  IN [k \in DOMAIN e \cup DOMAIN parsed |->
        IF k \in DOMAIN e THEN e[k] ELSE Str(parsed[k])]

\* load without once(): the loader runs on every call
onceEnvEveryCall == loadEnvStore(env, files)

\* load = once(...): the loader runs on the first call only, later calls
\* return the memoized result
onceEnv == IF called THEN env ELSE loadEnvStore(env, files)

onceResult == IF called THEN result ELSE loadEnvResult(env, files)

onceReads == IF called THEN reads ELSE reads + 1

-----------------------------------------------------------------------------
(* Store accessors *)

\* set as a bug would have it: a key that is present keeps its value
defineIfAbsent(e, key, value) ==
  [k \in DOMAIN e \cup {key} |->
     IF k \in DOMAIN e THEN e[k] ELSE Str(String(value))]

\* set on a plain object instead of process.env: the value is kept as it is
defineAsIs(e, key, value) ==
  [k \in DOMAIN e \cup {key} |-> IF k = key THEN value ELSE e[k]]

\* lodash set on process.env, which converts the assigned value to a string
define(e, key, value) ==
  [k \in DOMAIN e \cup {key} |-> IF k = key THEN Str(String(value)) ELSE e[k]]

\* get as a bug would have it: process.env[key] || defaultValue
grabOrDefault(e, key, defaultValue) ==
  IF key \in DOMAIN e /\ truthy(e[key]) THEN e[key] ELSE defaultValue

\* lodash get: the default stands in for a missing key
grab(e, key, defaultValue) ==
  IF key \in DOMAIN e THEN e[key] ELSE defaultValue

\* get(key, defaultValue), read from process.env after load()
get(key, defaultValue) == grab(onceEnv, key, defaultValue)

\* clear as a bug would have it: only the first key is deleted
deleteFirstOnly(e, keys) ==
  IF keys = <<>> THEN e ELSE [k \in DOMAIN e \ {Head(keys)} |-> e[k]]

\* delete process.env[key] for each key in turn
RECURSIVE forEachDelete(_, _)
forEachDelete(e, keys) ==
  IF keys = <<>> THEN e
  ELSE forEachDelete([k \in DOMAIN e \ {Head(keys)} |-> e[k]], Tail(keys))

-----------------------------------------------------------------------------
(* Coercers *)

\* the key argument left out (undefined)
NoKey == ""

isEmpty(key) == key = NoKey

\* [].concat(defaultValue)
concat(defaultValue) ==
  IF defaultValue.t = "array" THEN defaultValue.a ELSE <<defaultValue>>

\* getArray as a bug would have it: compact before trim
getArrayCompactFirst(key, defaultValue) ==
  LET value == IF isEmpty(key) THEN concat(defaultValue)
               ELSE concat(defaultValue) \o split(get(key, Str(<<>>)).s)
      kept == compact(value)
  IN uniq([i \in 1..Len(kept) |-> trim(kept[i])])

getArray(key, defaultValue) ==
  LET value == IF isEmpty(key) THEN concat(defaultValue)
               ELSE concat(defaultValue) \o split(get(key, Str(<<>>)).s)
      trimmed == [i \in 1..Len(value) |-> trim(value[i])]
  IN uniq(compact(trimmed))

getNumbers(key, defaultValue) ==
  LET numbers == getArray(key, defaultValue)
  IN [i \in 1..Len(numbers) |-> mapToNumber(numbers[i])]

\* getNumber as a bug would have it: every resolved value is coerced
getNumberAlways(key, defaultValue) == mapToNumber(get(key, defaultValue))

getNumber(key, defaultValue) ==
  LET value == get(key, defaultValue)
  IN IF truthy(value) THEN mapToNumber(value) ELSE value

getString(key, defaultValue) ==
  LET value == get(key, defaultValue)
  IN IF truthy(value) THEN mapToString(value) ELSE value

getStrings(key, defaultValue) ==
  LET strings == getArray(key, defaultValue)
  IN [i \in 1..Len(strings) |-> mapToString(strings[i])]

\* getStringSet as a bug would have it: deduplicated but not sorted
getStringSetUnsorted(key, defaultValue) == uniq(getStrings(key, defaultValue))

getStringSet(key, defaultValue) == sortedUniq(getStrings(key, defaultValue))

\* getBoolean as a bug would have it: Boolean(value), 'false' being truthy
getBooleanTruthy(key, defaultValue) ==
  LET value == get(key, defaultValue)
  IN IF truthy(value) THEN Bool(TRUE) ELSE value

getBoolean(key, defaultValue) ==
  LET value == get(key, defaultValue)
      notFalse == IF value = Str(<<"f", "a", "l", "s", "e">>) THEN Bool(FALSE) ELSE value
      notTrue == IF notFalse = Str(<<"t", "r", "u", "e">>) THEN Bool(TRUE) ELSE notFalse
  IN IF truthy(notTrue) THEN Bool(TRUE) ELSE notTrue

\* autoParse of a stored text: JSON text becomes the value it denotes, true
\* and false the booleans, a decimal number the number; another value is
\* returned as it is
autoParse(value) ==
  IF ~isString(value) THEN value
  ELSE IF value.s = <<"{", "}">> THEN Obj
  ELSE IF value.s = <<"t", "r", "u", "e">> THEN Bool(TRUE)
  ELSE IF value.s = <<"f", "a", "l", "s", "e">> THEN Bool(FALSE)
  ELSE IF value.s # <<>> /\ \A i \in 1..Len(value.s) : isDigit(value.s[i])
       THEN Num(ParseDigits(value.s, 10))
  ELSE value

getObject(key, defaultValue) ==
  LET value == get(key, IF defaultValue = Undefined THEN Obj ELSE defaultValue)
  IN IF truthy(value) THEN autoParse(value) ELSE value

-----------------------------------------------------------------------------
(* Derived values: apiVersion *)

Null == [t |-> "null"]

\* what a call that throws gives its caller
Thrown(error) == [t |-> "throw", error |-> error]

\* the end of the run of digits that starts at s[i]
RECURSIVE digitsEnd(_, _)
digitsEnd(s, i) ==
  IF i < Len(s) /\ isDigit(s[i + 1]) THEN digitsEnd(s, i + 1) ELSE i

\* a numeric identifier of a semantic version has no leading zero
isNumericIdentifier(s) == Len(s) = 1 \/ s[1] # "0"

\* semver coerce: the first run of digits is the major, a following .digits
\* the minor and another one the patch, a missing part being 0; null when the
\* value is no string, has no digit, or a part has a leading zero
coerce(v) ==
  IF v.t = "number" THEN [t |-> "semver", major |-> v.n, minor |-> 0, patch |-> 0]
  ELSE IF v.t # "string" \/ ~\E i \in 1..Len(v.s) : isDigit(v.s[i]) THEN Null
  ELSE LET s == v.s
           a == CHOOSE i \in 1..Len(s) :
                  isDigit(s[i]) /\ \A h \in 1..(i - 1) : ~isDigit(s[h])
           b == digitsEnd(s, a)
           hasMinor == b + 2 <= Len(s) /\ s[b + 1] = "." /\ isDigit(s[b + 2])
           c == IF hasMinor THEN digitsEnd(s, b + 2) ELSE b
           hasPatch == /\ hasMinor
                       /\ c + 2 <= Len(s)
                       /\ s[c + 1] = "."
                       /\ isDigit(s[c + 2])
           d == IF hasPatch THEN digitsEnd(s, c + 2) ELSE c
           major == SubSeq(s, a, b)
           minor == IF hasMinor THEN SubSeq(s, b + 2, c) ELSE <<"0">>
           patch == IF hasPatch THEN SubSeq(s, c + 2, d) ELSE <<"0">>
       IN IF /\ isNumericIdentifier(major)
             /\ isNumericIdentifier(minor)
             /\ isNumericIdentifier(patch)
          THEN [t |-> "semver",
                major |-> ParseDigits(major, 10),
                minor |-> ParseDigits(minor, 10),
                patch |-> ParseDigits(patch, 10)]
          ELSE Null

\* merge({}, defaults, optns): an option left undefined keeps its default
mergeOptions(optns) ==
  LET defaults == [version |-> Str(<<"1", ".", "0", ".", "0">>),
                   prefix |-> Str(<<"v">>),
                   major |-> Bool(TRUE),
                   minor |-> Bool(FALSE),
                   patch |-> Bool(FALSE)]
  IN [f \in DOMAIN defaults |->
        IF optns[f] = Undefined THEN defaults[f] ELSE optns[f]]

\* Array.prototype.join('.') of numbers
RECURSIVE joinDots(_)
joinDots(numbers) ==
  IF Len(numbers) = 1 THEN NumToChars(numbers[1])
  ELSE NumToChars(numbers[1]) \o <<".">> \o joinDots(Tail(numbers))

apiVersionMinorWins(optns) ==
  LET options == mergeOptions(optns)
      parsedVersion == coerce(getString("API_VERSION", options.version))
  IN IF parsedVersion = Null
     THEN Thrown("TypeError")
     ELSE LET major == <<parsedVersion.major>>
              patch == IF truthy(options.patch)
                       THEN <<parsedVersion.major, parsedVersion.minor,
                              parsedVersion.patch>>
                       ELSE major
              minor == IF truthy(options.minor)
                       THEN <<parsedVersion.major, parsedVersion.minor>>
                       ELSE patch
          IN Str(String(options.prefix) \o joinDots(minor))

apiVersion(optns) ==
  LET options == mergeOptions(optns)
      parsedVersion == coerce(getString("API_VERSION", options.version))
  IN IF parsedVersion = Null
     THEN Thrown("TypeError")
     ELSE LET major == <<parsedVersion.major>>
              minor == IF truthy(options.minor)
                       THEN <<parsedVersion.major, parsedVersion.minor>>
                       ELSE major
              patch == IF truthy(options.patch)
                       THEN <<parsedVersion.major, parsedVersion.minor,
                              parsedVersion.patch>>
                       ELSE minor
          IN Str(String(options.prefix) \o joinDots(patch))

-----------------------------------------------------------------------------
(* Derived values: locale and country code *)

\* os-locale's sync(): what the operating system reports, by spawning a
\* command or, with spawn off, from the process environment alone
osLocale(detected, spawn) == IF spawn THEN detected.spawned ELSE detected.plain

\* String.prototype.split(separator) for a one-character separator
RECURSIVE splitBy(_, _)
splitBy(s, separator) ==
  IF \E i \in 1..Len(s) : s[i] = separator
  THEN LET i == CHOOSE h \in 1..Len(s) :
                  s[h] = separator /\ \A g \in 1..(h - 1) : s[g] # separator
       IN <<SubSeq(s, 1, i - 1)>> \o splitBy(SubSeq(s, i + 1, Len(s)), separator)
  ELSE <<s>>

last(array) == array[Len(array)]

sizeOf(collection) == Len(collection)

getLocale(defaultLocale, detected) ==
  LET fallback == IF defaultLocale = Undefined THEN Str(<<"s", "w">>)
                  ELSE defaultLocale
      spawned == osLocale(detected, TRUE)
      plain == osLocale(detected, FALSE)
      locale == IF truthy(spawned) THEN spawned
                ELSE IF truthy(plain) THEN plain
                ELSE fallback
  IN getString("DEFAULT_LOCALE", locale)

getCountryCodeUnderscoreWins(defaultCountryCode, detected) ==
  LET locale == getLocale(Undefined, detected).s
      start == IF defaultCountryCode = Undefined THEN Str(<<"T", "Z">>)
               ELSE defaultCountryCode
      hyphen == IF sizeOf(splitBy(locale, "-")) > 1
                THEN Str(last(splitBy(locale, "-")))
                ELSE start
      underscore == IF sizeOf(splitBy(locale, "_")) > 1
                    THEN Str(last(splitBy(locale, "_")))
                    ELSE hyphen
  IN getString("DEFAULT_COUNTRY_CODE", underscore)

getCountryCode(defaultCountryCode, detected) ==
  LET locale == getLocale(Undefined, detected).s
      start == IF defaultCountryCode = Undefined THEN Str(<<"T", "Z">>)
               ELSE defaultCountryCode
      underscore == IF sizeOf(splitBy(locale, "_")) > 1
                    THEN Str(last(splitBy(locale, "_")))
                    ELSE start
      hyphen == IF sizeOf(splitBy(locale, "-")) > 1
                THEN Str(last(splitBy(locale, "-")))
                ELSE underscore
  IN getString("DEFAULT_COUNTRY_CODE", hyphen)

-----------------------------------------------------------------------------
(* Derived values: the runtime environment *)

UpperLetters ==
  <<"A", "B", "C", "D", "E", "F", "G", "H", "I", "J", "K", "L", "M",
    "N", "O", "P", "Q", "R", "S", "T", "U", "V", "W", "X", "Y", "Z">>

LowerLetters ==
  <<"a", "b", "c", "d", "e", "f", "g", "h", "i", "j", "k", "l", "m",
    "n", "o", "p", "q", "r", "s", "t", "u", "v", "w", "x", "y", "z">>

\* String.prototype.toLowerCase
toLowerCase(s) ==
  [i \in 1..Len(s) |->
     IF \E j \in 1..Len(UpperLetters) : UpperLetters[j] = s[i]
     THEN LowerLetters[CHOOSE j \in 1..Len(UpperLetters) : UpperLetters[j] = s[i]]
     ELSE s[i]]

\* lodash toLower: the text of the value, undefined being '', in lower case
toLower(value) == toLowerCase(toString(value))

isNameLowered(name) ==
  Bool(toLower(get("NODE_ENV", Undefined)) = toString(name))

is(name) == Bool(toLower(get("NODE_ENV", Undefined)) = toLower(name))

isTest == is(Str(<<"t", "e", "s", "t">>))

isDevelopment == is(Str(<<"d", "e", "v", "e", "l", "o", "p", "m", "e", "n", "t">>))

isProduction == is(Str(<<"p", "r", "o", "d", "u", "c", "t", "i", "o", "n">>))

isLocal == IF truthy(isTest) THEN isTest ELSE isDevelopment

isHeroku ==
  Bool(toLower(get("RUNTIME_ENV", Undefined)) = <<"h", "e", "r", "o", "k", "u">>)

-----------------------------------------------------------------------------
(* Bounds and inputs *)

MaxClear == 2
MaxLen == 3

Keys == {"BASE_PATH", "K", "J"}

Dir == <<"d">>

\* values handed to set
SetValues == {Str(<<>>), Str(Dir), Num(0), Undefined}

\* defaults handed to get
GetDefaults == {Undefined, Str(Dir), Num(0)}

FileA == File(<<Pair("K", <<"f">>), Junk, Pair("J", <<>>), Pair("K", <<"g">>)>>)
FileB == File(<<Pair("BASE_PATH", Dir), Pair("J", <<"0">>)>>)
FileContents == {Missing, FileA, FileB}

\* the .env files when the process starts
StartFiles == [dir \in {Cwd, Dir} |-> IF dir = Cwd THEN FileA ELSE FileB]

\* process.env when the process starts
StartEnvs ==
  {<<>>, [k \in {"K"} |-> Str(<<"0">>)], [k \in {"BASE_PATH"} |-> Str(Dir)]}

RECURSIVE SeqsUpTo(_, _)
SeqsUpTo(S, n) ==
  IF n = 0 THEN {<<>>}
  ELSE LET shorter == SeqsUpTo(S, n - 1)
       IN shorter \cup {Append(s, x) : s \in shorter, x \in S}

-----------------------------------------------------------------------------
(* Operations *)

Init ==
  /\ env \in StartEnvs
  /\ called = FALSE
  /\ result = Undefined
  /\ files = StartFiles
  /\ reads = 0
  /\ pre = env
  /\ op = [name |-> "start"]
  /\ ret = Undefined

Load ==
  /\ env' = onceEnv
  /\ result' = onceResult
  /\ reads' = onceReads
  /\ called' = TRUE
  /\ ret' = onceResult
  /\ op' = [name |-> "load"]
  /\ pre' = env
  /\ UNCHANGED files

Get(key, defaultValue) ==
  /\ env' = onceEnv
  /\ result' = onceResult
  /\ reads' = onceReads
  /\ called' = TRUE
  /\ ret' = get(key, defaultValue)
  /\ op' = [name |-> "get", key |-> key, defaultValue |-> defaultValue]
  /\ pre' = env
  /\ UNCHANGED files

Set(key, value) ==
  /\ env' = define(env, key, value)
  /\ ret' = value
  /\ op' = [name |-> "set", key |-> key, value |-> value]
  /\ pre' = env
  /\ UNCHANGED <<called, result, reads, files>>

\* clear as a bug would have it: it calls load() before it deletes
ClearLoading(keys) ==
  /\ env' = forEachDelete(onceEnv, keys)
  /\ result' = onceResult
  /\ reads' = onceReads
  /\ called' = TRUE
  /\ ret' = Undefined
  /\ op' = [name |-> "clear", keys |-> keys]
  /\ pre' = env
  /\ UNCHANGED files

Clear(keys) ==
  /\ env' = forEachDelete(env, keys)
  /\ ret' = Undefined
  /\ op' = [name |-> "clear", keys |-> keys]
  /\ pre' = env
  /\ UNCHANGED <<called, result, reads, files>>

\* the .env file of a directory is rewritten, created or removed from outside
\* (the one under the working directory; the one under Dir stays as it is)
WriteFile(dir, content) ==
  /\ files[dir] # content
  /\ files' = [files EXCEPT ![dir] = content]
  /\ ret' = Undefined
  /\ op' = [name |-> "writeFile"]
  /\ pre' = env
  /\ UNCHANGED <<env, called, result, reads>>

Next ==
  \/ Load
  \/ \E key \in Keys, defaultValue \in GetDefaults : Get(key, defaultValue)
  \/ \E key \in Keys, value \in SetValues : Set(key, value)
  \/ \E keys \in SeqsUpTo(Keys, MaxClear) : Clear(keys)
  \/ \E content \in FileContents : WriteFile(Cwd, content)

Spec == Init /\ [][Next]_vars

-----------------------------------------------------------------------------
(* Reading arrays: the Store holds K, the .env file defines J *)

ArrayChars == {"a", "b", " ", ","}

ArrayDefaults ==
  {Undefined, Str(<<"b">>), Str(<<" ", "a">>), Num(0),
   Arr(<<Str(<<"b">>), Undefined, Str(<<"a", " ">>), Str(<<"b">>)>>)}

ReadFiles ==
  [dir \in {Cwd} |-> File(<<Pair("J", <<"b", ",", " ", "a", ",", "b">>)>>)]

ReadKeys == {"K", "J", NoKey}

InitRead(texts) ==
  /\ env \in {<<>>} \cup {[k \in {"K"} |-> Str(s)] : s \in texts}
  /\ called = FALSE
  /\ result = Undefined
  /\ files = ReadFiles
  /\ reads = 0
  /\ pre = env
  /\ op = [name |-> "start"]
  /\ ret = Undefined

\* a read through get(): load() first, then the value read
ReadThroughGet(name, key, defaultValue, value) ==
  /\ env' = onceEnv
  /\ result' = onceResult
  /\ reads' = onceReads
  /\ called' = TRUE
  /\ ret' = value
  /\ op' = [name |-> name, key |-> key, defaultValue |-> defaultValue]
  /\ pre' = env
  /\ UNCHANGED files

\* getArray with no key reads nothing from the Store and does not call load()
ReadNoKey(name, key, defaultValue, value) ==
  /\ ret' = Arr(value)
  /\ op' = [name |-> name, key |-> key, defaultValue |-> defaultValue]
  /\ pre' = env
  /\ UNCHANGED <<env, called, result, reads, files>>

ReadArray(name, key, defaultValue, value) ==
  IF isEmpty(key)
  THEN ReadNoKey(name, key, defaultValue, value)
  ELSE ReadThroughGet(name, key, defaultValue, Arr(value))

GetArray(key, defaultValue) ==
  ReadArray("getArray", key, defaultValue, getArray(key, defaultValue))

GetNumbers(key, defaultValue) ==
  ReadArray("getNumbers", key, defaultValue, getNumbers(key, defaultValue))

GetStrings(key, defaultValue) ==
  ReadArray("getStrings", key, defaultValue, getStrings(key, defaultValue))

GetStringSet(key, defaultValue) ==
  ReadArray("getStringSet", key, defaultValue, getStringSet(key, defaultValue))

\* the stored values of the documented examples: "a, a, ,b" and "b,a,a"
ArrayExamples ==
  {<<"a", ",", " ", "a", ",", " ", ",", "b">>, <<"b", ",", "a", ",", "a">>}

InitArray == InitRead(SeqsUpTo(ArrayChars, MaxLen) \cup ArrayExamples)

NextArray ==
  \/ \E key \in ReadKeys, d \in ArrayDefaults : GetArray(key, d)
  \/ \E key \in ReadKeys, d \in ArrayDefaults : GetNumbers(key, d)
  \/ \E key \in ReadKeys, d \in ArrayDefaults : GetStrings(key, d)
  \/ \E key \in ReadKeys, d \in ArrayDefaults : GetStringSet(key, d)

SpecArray == InitArray /\ [][NextArray]_vars

-----------------------------------------------------------------------------
(* Reading scalars *)

ScalarChars == {"0", "1", "b", " "}

ScalarDefaults ==
  {Undefined, Str(<<>>), Str(<<"1", "0">>), Str(<<"b">>), Num(0), Num(7),
   Bool(TRUE), Bool(FALSE), Str(<<"f", "a", "l", "s", "e">>)}

\* the stored values of the documented examples: "false", "true" and "yes"
ScalarExamples ==
  {<<"f", "a", "l", "s", "e">>, <<"t", "r", "u", "e">>, <<"y", "e", "s">>}

GetNumber(key, defaultValue) ==
  ReadThroughGet("getNumber", key, defaultValue, getNumber(key, defaultValue))

GetString(key, defaultValue) ==
  ReadThroughGet("getString", key, defaultValue, getString(key, defaultValue))

GetBoolean(key, defaultValue) ==
  ReadThroughGet("getBoolean", key, defaultValue, getBoolean(key, defaultValue))

InitScalar == InitRead(SeqsUpTo(ScalarChars, MaxLen) \cup ScalarExamples)

NextScalar ==
  \/ \E key \in ReadKeys, d \in ScalarDefaults : GetNumber(key, d)
  \/ \E key \in ReadKeys, d \in ScalarDefaults : GetString(key, d)
  \/ \E key \in ReadKeys, d \in ScalarDefaults : GetBoolean(key, d)

SpecScalar == InitScalar /\ [][NextScalar]_vars

-----------------------------------------------------------------------------
(* Reading derived values *)

\* a read built on get() that takes other arguments than a key and a default
ReadDerived(name, args, value) ==
  /\ env' = onceEnv
  /\ result' = onceResult
  /\ reads' = onceReads
  /\ called' = TRUE
  /\ ret' = value
  /\ op' = [name |-> name, args |-> args]
  /\ pre' = env
  /\ UNCHANGED files

VersionChars == {"1", "2", ".", "x"}

\* the versions of the documented examples: 2.3.4 and 2.0.0
VersionExamples ==
  {<<"2", ".", "3", ".", "4">>, <<"2", ".", "0", ".", "0">>}

\* the major, minor and patch options: none given, or each true or false
VersionFlags ==
  {[major |-> Undefined, minor |-> Undefined, patch |-> Undefined]}
    \cup {[major |-> Bool(a), minor |-> Bool(b), patch |-> Bool(c)] :
            a, b, c \in BOOLEAN}

VersionOptions ==
  {[version |-> v, prefix |-> p,
    major |-> f.major, minor |-> f.minor, patch |-> f.patch] :
     v \in {Undefined, Str(<<"2", ".", "3", ".", "4">>), Str(<<"x">>)},
     p \in {Undefined, Str(<<"a", "p", "i">>)},
     f \in VersionFlags}

ApiVersion(optns) == ReadDerived("apiVersion", optns, apiVersion(optns))

InitVersion ==
  /\ env \in {<<>>} \cup {[k \in {"API_VERSION"} |-> Str(s)] :
                             s \in SeqsUpTo(VersionChars, MaxLen) \cup VersionExamples}
  /\ called = FALSE
  /\ result = Undefined
  /\ files = ReadFiles
  /\ reads = 0
  /\ pre = env
  /\ op = [name |-> "start"]
  /\ ret = Undefined

NextVersion == \E optns \in VersionOptions : ApiVersion(optns)

SpecVersion == InitVersion /\ [][NextVersion]_vars

LocaleChars == {"e", "_", "-"}

LocaleExamples ==
  {<<"e", "n", "_", "U", "S">>, <<"e", "n", "-", "G", "B">>, <<"s", "w">>}

\* what the operating system may report: nothing, a locale from the spawned
\* command, a locale from the process environment, or both
DetectedLocales ==
  {[spawned |-> Str(a), plain |-> Str(b)] :
     a, b \in {<<>>, <<"e", "n", "_", "U", "S">>, <<"e", "n", "-", "G", "B">>}}

CountryCodes == {Str(<<"K", "E">>), Str(<<>>)}

GetLocale(defaultLocale, detected) ==
  ReadDerived("getLocale",
              [defaultLocale |-> defaultLocale, detected |-> detected],
              getLocale(defaultLocale, detected))

GetCountryCode(defaultCountryCode, detected) ==
  ReadDerived("getCountryCode",
              [defaultCountryCode |-> defaultCountryCode, detected |-> detected],
              getCountryCode(defaultCountryCode, detected))

InitLocale ==
  /\ \E locale \in {<<>>} \cup {[k \in {"DEFAULT_LOCALE"} |-> Str(s)] :
                                  s \in SeqsUpTo(LocaleChars, MaxLen) \cup LocaleExamples},
        code \in {<<>>} \cup {[k \in {"DEFAULT_COUNTRY_CODE"} |-> c] : c \in CountryCodes} :
       env = [k \in DOMAIN locale \cup DOMAIN code |->
                IF k \in DOMAIN locale THEN locale[k] ELSE code[k]]
  /\ called = FALSE
  /\ result = Undefined
  /\ files = ReadFiles
  /\ reads = 0
  /\ pre = env
  /\ op = [name |-> "start"]
  /\ ret = Undefined

NextLocale ==
  \/ \E d \in {Undefined, Str(<<"f", "r">>)}, detected \in DetectedLocales :
       GetLocale(d, detected)
  \/ \E d \in {Undefined, Str(<<"U", "G">>), Str(<<>>)}, detected \in DetectedLocales :
       GetCountryCode(d, detected)

SpecLocale == InitLocale /\ [][NextLocale]_vars

EnvNameChars == {"t", "T"}

EnvNameExamples ==
  {<<"t", "e", "s", "t">>, <<"T", "E", "S", "T">>, <<"T", "e", "s", "t">>,
   <<"d", "e", "v", "e", "l", "o", "p", "m", "e", "n", "t">>,
   <<"D", "e", "v", "e", "l", "o", "p", "m", "e", "n", "t">>,
   <<"p", "r", "o", "d", "u", "c", "t", "i", "o", "n">>}

EnvNames == SeqsUpTo(EnvNameChars, MaxLen) \cup EnvNameExamples

RuntimeNames == {<<"H", "e", "r", "o", "k", "u">>, <<"a", "w", "s">>}

Is(name) == ReadDerived("is", [name |-> name], is(name))

IsTest == ReadDerived("isTest", <<>>, isTest)

IsDevelopment == ReadDerived("isDevelopment", <<>>, isDevelopment)

IsProduction == ReadDerived("isProduction", <<>>, isProduction)

IsLocal == ReadDerived("isLocal", <<>>, isLocal)

IsHeroku == ReadDerived("isHeroku", <<>>, isHeroku)

InitIs ==
  /\ \E node \in {<<>>} \cup {[k \in {"NODE_ENV"} |-> Str(s)] : s \in EnvNames},
        runtime \in {<<>>} \cup {[k \in {"RUNTIME_ENV"} |-> Str(s)] : s \in RuntimeNames} :
       env = [k \in DOMAIN node \cup DOMAIN runtime |->
                IF k \in DOMAIN node THEN node[k] ELSE runtime[k]]
  /\ called = FALSE
  /\ result = Undefined
  /\ files = ReadFiles
  /\ reads = 0
  /\ pre = env
  /\ op = [name |-> "start"]
  /\ ret = Undefined

NextIs ==
  \/ \E name \in EnvNames : Is(Str(name))
  \/ IsTest
  \/ IsDevelopment
  \/ IsProduction
  \/ IsLocal
  \/ IsHeroku

SpecIs == InitIs /\ [][NextIs]_vars

-----------------------------------------------------------------------------
(* Every operation over one Store *)

GetObject(key, defaultValue) ==
  ReadThroughGet("getObject", key, defaultValue, getObject(key, defaultValue))

AllKeys == {"K", "NODE_ENV"}

AllValues == {Str(<<"1">>), Str(<<"t", "e", "s", "t">>)}

\* no .env file, one with no KEY=VALUE line, and one with such lines after a
\* line the parser skips
AllFiles ==
  {Missing,
   File(<<Junk, Junk>>),
   File(<<Junk, Pair("K", <<"{", "}">>), Pair("API_VERSION", <<"2">>)>>)}

NoOptions ==
  [version |-> Undefined, prefix |-> Undefined,
   major |-> Undefined, minor |-> Undefined, patch |-> Undefined]

DetectedGB == [spawned |-> Str(<<"e", "n", "-", "G", "B">>), plain |-> Str(<<>>)]

ReadOps ==
  {"get", "getArray", "getNumbers", "getStrings", "getStringSet", "getNumber",
   "getString", "getBoolean", "getObject", "is", "isTest", "isDevelopment",
   "isProduction", "isLocal", "isHeroku", "apiVersion", "getLocale",
   "getCountryCode"}

InitAll ==
  /\ env \in {<<>>} \cup {[k \in {key} |-> value] : key \in AllKeys, value \in AllValues}
  /\ called = FALSE
  /\ result = Undefined
  /\ files \in {[dir \in {Cwd} |-> file] : file \in AllFiles}
  /\ reads = 0
  /\ pre = env
  /\ op = [name |-> "start"]
  /\ ret = Undefined

NextAll ==
  \/ Load
  \/ \E key \in AllKeys, value \in AllValues : Set(key, value)
  \/ \E keys \in SeqsUpTo(AllKeys, MaxClear) : Clear(keys)
  \/ \E key \in AllKeys, d \in {Undefined, Str(<<"1">>)} : Get(key, d)
  \/ \E key \in {"K", NoKey} : GetArray(key, Undefined)
  \/ GetNumbers("K", Undefined)
  \/ GetStrings("K", Undefined)
  \/ GetStringSet("K", Undefined)
  \/ GetNumber("K", Undefined)
  \/ GetString("K", Undefined)
  \/ GetBoolean("K", Undefined)
  \/ GetObject("K", Undefined)
  \/ Is(Str(<<"t", "e", "s", "t">>))
  \/ IsTest
  \/ IsDevelopment
  \/ IsProduction
  \/ IsLocal
  \/ IsHeroku
  \/ ApiVersion(NoOptions)
  \/ GetLocale(Undefined, DetectedGB)
  \/ GetCountryCode(Undefined, DetectedGB)

SpecAll == InitAll /\ [][NextAll]_vars

-----------------------------------------------------------------------------
(* Claims about the Store and the one-time load *)

Range(s) == {s[i] : i \in 1..Len(s)}

\* the pairs of the .env file a load would read in the current state
fileParsed ==
  LET file == readFileSync(files, dotenvPath(env))
  IN IF file.kind = "missing" THEN <<>> ELSE parse(file.lines)

\* C1: the .env file is read at most once; once the loader has run, no call
\* reads it again or changes the memoized result, and a later load() leaves
\* the Store as it is and returns the result memoized by the first call
C1_LoadRunsOnce ==
  [][/\ reads' <= 1
     /\ called => reads' = reads /\ result' = result
     /\ (called /\ op'.name = "load") => env' = env /\ ret' = result
     /\ (~called /\ op'.name = "load") => ret' = result']_vars

\* a load() that found the loader already run, although the file now behind
\* BASE_PATH would seed the Store and give another result
C1_Witness ==
  /\ op.name = "load"
  /\ files # StartFiles
  /\ pre = env
  /\ loadEnvStore(env, files) # env
  /\ loadEnvResult(env, files) # ret

\* C2: the first load keeps every entry the Store already has, gives a key of
\* the file that the Store lacks the file's value, and leaves a key absent
\* from both absent
C2_LoadKeepsEntries ==
  [][(~called /\ called') =>
       \A k \in Keys :
         /\ k \in DOMAIN env => k \in DOMAIN env' /\ env'[k] = env[k]
         /\ (k \notin DOMAIN env /\ k \in DOMAIN fileParsed) =>
              k \in DOMAIN env' /\ env'[k] = Str(fileParsed[k])
         /\ (k \notin DOMAIN env /\ k \notin DOMAIN fileParsed) =>
              k \notin DOMAIN env']_vars

\* the first load seeded a key while another key, which the file gives a
\* different value, kept the value it had
C2_Witness ==
  /\ op.name = "load"
  /\ "parsed" \in DOMAIN ret
  /\ \E j \in DOMAIN env : j \notin DOMAIN pre
  /\ \E k \in DOMAIN pre :
       /\ k \in DOMAIN ret.parsed
       /\ Str(ret.parsed[k]) # pre[k]
       /\ env[k] = pre[k]

\* C3: get(key, d) returns d when key is absent from the Store as loaded, and
\* the stored value itself when key is present, also when that value is falsy
C3_GetDefaultIffAbsent ==
  op.name = "get" =>
    /\ op.key \notin DOMAIN env => ret = op.defaultValue
    /\ op.key \in DOMAIN env => ret = env[op.key]

\* a stored empty string was returned although a truthy default was given
C3_Witness ==
  /\ op.name = "get"
  /\ op.key \in DOMAIN env
  /\ env[op.key] = Str(<<>>)
  /\ truthy(op.defaultValue)
  /\ ret = Str(<<>>)

\* C4 as stated: once set(key, value) has returned, get(key, d) returns value
\* for every default d
C4_GetReturnsValueSet ==
  op.name = "set" => \A d \in GetDefaults : get(op.key, d) = op.value

\* C4: set(key, value) returns value, writes the string form of value under
\* key and leaves every other key alone; a get of a present key returns the
\* value the Store holds for it, whatever the default and whether or not the
\* load had run; and only a set or a clear naming the key changes a present key
C4_SetThenGet ==
  [][/\ op'.name = "set" =>
          /\ ret' = op'.value
          /\ op'.key \in DOMAIN env'
          /\ env'[op'.key] = Str(String(op'.value))
          /\ isString(op'.value) => env'[op'.key] = op'.value
          /\ \A d \in GetDefaults : grab(env', op'.key, d) = env'[op'.key]
          /\ \A k \in Keys \ {op'.key} :
               /\ k \in DOMAIN env' <=> k \in DOMAIN env
               /\ k \in DOMAIN env => env'[k] = env[k]
     /\ \A k \in DOMAIN env :
          /\ (op'.name = "get" /\ op'.key = k) => ret' = env[k]
          /\ ~(op'.name = "set" /\ op'.key = k)
               /\ ~(op'.name = "clear" /\ k \in Range(op'.keys))
             => k \in DOMAIN env' /\ env'[k] = env[k]]_vars

\* a get that ran the one-time load returned the value set before it for a
\* key the file defines too
C4_Witness ==
  /\ op.name = "get"
  /\ reads = 1
  /\ \E j \in DOMAIN env : j \notin DOMAIN pre
  /\ op.key \in DOMAIN pre
  /\ op.key \in DOMAIN fileParsed
  /\ Str(fileParsed[op.key]) # pre[op.key]
  /\ ret = pre[op.key]
  /\ ret # op.defaultValue

\* C5: clear(k1, ..., kn) leaves every listed key absent and every other key
\* as it was; a listed key that was absent already changes nothing
C5_ClearRemovesExactly ==
  op.name = "clear" =>
    \A k \in Keys :
      /\ k \in Range(op.keys) => k \notin DOMAIN env
      /\ k \notin Range(op.keys) =>
           /\ k \in DOMAIN env <=> k \in DOMAIN pre
           /\ k \in DOMAIN pre => env[k] = pre[k]

\* a clear of two keys, one present and one absent, with a third key kept
C5_Witness ==
  /\ op.name = "clear"
  /\ Len(op.keys) = 2
  /\ op.keys[2] \in DOMAIN pre
  /\ op.keys[1] \notin DOMAIN pre
  /\ \E k \in DOMAIN env : k \notin Range(op.keys)

\* C6: every value the Store holds is a string
C6_StoreHoldsStrings == \A k \in DOMAIN env : isString(env[k])

\* set was called with a value that is not a string
C6_Witness ==
  /\ op.name = "set"
  /\ ~isString(op.value)
  /\ op.key \in DOMAIN env
  /\ isString(env[op.key])

-----------------------------------------------------------------------------
(* Claims about the coercers *)

\* t is s without its leading and trailing whitespace
IsTrimOf(t, s) ==
  \E a, b \in 0..Len(s) :
    /\ a + b <= Len(s)
    /\ \A i \in 1..a : isSpace(s[i])
    /\ \A i \in (Len(s) - b + 1)..Len(s) : isSpace(s[i])
    /\ t = SubSeq(s, a + 1, Len(s) - b)
    /\ t # <<>> => ~isSpace(t[1]) /\ ~isSpace(t[Len(t)])

Stripped(s) ==
  CHOOSE t \in {SubSeq(s, a, b) : a \in 1..(Len(s) + 1), b \in 0..Len(s)} :
    IsTrimOf(t, s)

\* the value of the key of the last read in the Store, '' when it has none
storedText == IF op.key \in DOMAIN env THEN env[op.key].s ELSE <<>>

\* the texts getArray starts from: the items of the default, then the
\* comma-separated pieces of the stored value
sourceTexts ==
  LET d == op.defaultValue
      items == IF d.t = "array" THEN d.a ELSE IF d.t = "undefined" THEN <<>> ELSE <<d>>
      texts == [i \in 1..Len(items) |-> toString(items[i])]
      pieces == IF op.key = NoKey THEN <<>>
                ELSE [i \in 1..Len(split(storedText)) |-> split(storedText)[i].s]
  IN texts \o pieces

FirstAt(texts, x) ==
  CHOOSE i \in 1..Len(texts) :
    Stripped(texts[i]) = x /\ \A h \in 1..(i - 1) : Stripped(texts[h]) # x

\* C7: getArray(key, d) returns the items of d followed by the pieces of the
\* stored value between commas, each trimmed, the empty ones dropped, each
\* kept once at its first occurrence
C7_GetArrayTokens ==
  op.name = "getArray" =>
    LET out == ret.a
        texts == sourceTexts
        pieces == split(storedText)
    IN /\ Join([i \in 1..Len(pieces) |-> pieces[i].s]) = storedText
       /\ \A i \in 1..Len(pieces) : "," \notin Range(pieces[i].s)
       /\ \A i \in 1..Len(out) :
            /\ isString(out[i])
            /\ out[i].s # <<>>
            /\ ~isSpace(out[i].s[1])
            /\ ~isSpace(out[i].s[Len(out[i].s)])
            /\ \E j \in 1..Len(texts) : Stripped(texts[j]) = out[i].s
       /\ \A j \in 1..Len(texts) :
            Stripped(texts[j]) # <<>> => Str(Stripped(texts[j])) \in Range(out)
       /\ \A i, j \in 1..Len(out) :
            i < j => FirstAt(texts, out[i].s) < FirstAt(texts, out[j].s)

\* the Store holds "a, a, ,b" and the default is " a": getArray trimmed the
\* pieces, dropped the empty one and the repeated ones
C7_Witness ==
  /\ op.name = "getArray"
  /\ op.key = "K"
  /\ op.defaultValue = Str(<<" ", "a">>)
  /\ storedText = <<"a", ",", " ", "a", ",", " ", ",", "b">>
  /\ ret = Arr(<<Str(<<"a">>), Str(<<"b">>)>>)

\* C8: getArray applied to its own result as the default, with no key,
\* returns that result
C8_GetArrayIdempotent ==
  op.name = "getArray" => getArray(NoKey, ret) = ret.a

\* a getArray result that differs from its input: a piece was trimmed and a
\* whitespace piece dropped
C8_Witness ==
  /\ op.name = "getArray"
  /\ op.key = "K"
  /\ storedText = <<",", "a", " ">>
  /\ op.defaultValue = Undefined
  /\ ret = Arr(<<Str(<<"a">>)>>)

\* C9: getStringSet(key, d) is in strictly ascending order, so sorted and
\* without duplicates, and has the elements of getStrings(key, d)
C9_StringSetSorted ==
  op.name = "getStringSet" =>
    /\ \A i \in 1..(Len(ret.a) - 1) : StrLess(ret.a[i].s, ret.a[i + 1].s)
    /\ Range(ret.a) = Range(getStrings(op.key, op.defaultValue))

\* the Store holds "b,a,a": getStrings gives b, a and getStringSet a, b
C9_Witness ==
  /\ op.name = "getStringSet"
  /\ op.key = "K"
  /\ storedText = <<"b", ",", "a", ",", "a">>
  /\ op.defaultValue = Undefined
  /\ getStrings(op.key, op.defaultValue) = <<Str(<<"b">>), Str(<<"a">>)>>
  /\ ret = Arr(<<Str(<<"a">>), Str(<<"b">>)>>)

\* C10: getNumber(key, d) returns mapToNumber(v) for a truthy v = get(key, d)
\* and v itself for a falsy one: a falsy default and a stored '' come back as
\* they are, a stored "0" comes back as the number 0
C10_GetNumberGate ==
  op.name = "getNumber" =>
    LET v == IF op.key \in DOMAIN env THEN env[op.key] ELSE op.defaultValue
    IN /\ truthy(v) => ret = mapToNumber(v)
       /\ ~truthy(v) => ret = v
       /\ v = Str(<<"0">>) => ret = Num(0)
       /\ v = Str(<<>>) => ret = Str(<<>>)
       /\ v = Num(0) => ret = Num(0)
       /\ v = Undefined => ret = Undefined
       /\ v = Str(<<"1", "0">>) => ret = Num(10)

\* a stored "0" was read as the number 0 although a default was given
C10_Witness ==
  /\ op.name = "getNumber"
  /\ op.key = "K"
  /\ storedText = <<"0">>
  /\ op.defaultValue = Num(7)
  /\ ret = Num(0)


\* the value get resolves for the last read: the stored one, else the default
resolved == IF op.key \in DOMAIN env THEN env[op.key] ELSE op.defaultValue

\* C11: getBoolean(key, d) gives false for the string "false" and true for
\* the string "true", stored or default, true for any other truthy value, and
\* a falsy value as it is; a stored "false" gives false whatever the default
C11_GetBooleanLiterals ==
  op.name = "getBoolean" =>
    /\ resolved = Str(<<"f", "a", "l", "s", "e">>) => ret = Bool(FALSE)
    /\ resolved = Str(<<"t", "r", "u", "e">>) => ret = Bool(TRUE)
    /\ (truthy(resolved) /\ resolved # Str(<<"f", "a", "l", "s", "e">>)) =>
         ret = Bool(TRUE)
    /\ ~truthy(resolved) => ret = resolved
    /\ (op.key \in DOMAIN env /\ storedText = <<"f", "a", "l", "s", "e">>) =>
         ret = Bool(FALSE)

\* a stored "false" was read as false although the default was true
C11_Witness ==
  /\ op.name = "getBoolean"
  /\ op.key = "K"
  /\ op.key \in DOMAIN env
  /\ storedText = <<"f", "a", "l", "s", "e">>
  /\ op.defaultValue = Bool(TRUE)
  /\ ret = Bool(FALSE)


\* the version apiVersion reads: API_VERSION when the Store has it, else the
\* version option, else 1.0.0
versionRead ==
  IF "API_VERSION" \in DOMAIN env THEN env["API_VERSION"]
  ELSE IF op.args.version # Undefined THEN op.args.version
  ELSE Str(<<"1", ".", "0", ".", "0">>)

\* C12: for a version that is a semantic version, apiVersion(options) takes
\* it from the Store's API_VERSION when present, else from options.version
\* (default 1.0.0), and returns the prefix followed by major.minor.patch if
\* patch is set, else major.minor if minor is set, else the major alone,
\* whatever the major option
C12_ApiVersionFormat ==
  (op.name = "apiVersion" /\ coerce(versionRead) # Null) =>
    LET v == coerce(versionRead)
        prefix == IF op.args.prefix = Undefined THEN <<"v">> ELSE op.args.prefix.s
        M == NumToChars(v.major)
        m == NumToChars(v.minor)
        p == NumToChars(v.patch)
    IN /\ ret.t = "string"
       /\ ret.s = prefix \o
            (IF op.args.patch = Bool(TRUE) THEN M \o <<".">> \o m \o <<".">> \o p
             ELSE IF op.args.minor = Bool(TRUE) THEN M \o <<".">> \o m
             ELSE M)

\* API_VERSION 2.3.4 overrides the version option; with patch and minor both
\* set and major unset the answer is v2.3.4
C12_Witness ==
  /\ op.name = "apiVersion"
  /\ "API_VERSION" \in DOMAIN env
  /\ env["API_VERSION"] = Str(<<"2", ".", "3", ".", "4">>)
  /\ op.args.version = Str(<<"x">>)
  /\ op.args.patch = Bool(TRUE)
  /\ op.args.minor = Bool(TRUE)
  /\ op.args.major = Bool(FALSE)
  /\ ret = Str(<<"v", "2", ".", "3", ".", "4">>)

\* C13: apiVersion returns to its caller, without throwing, also when the
\* version read cannot be parsed
C13_ApiVersionNeverThrows ==
  op.name = "apiVersion" => ret.t # "throw"


\* the locale of a call: DEFAULT_LOCALE when the Store has it, else what the
\* operating system reports, else sw
localeRead ==
  IF "DEFAULT_LOCALE" \in DOMAIN env THEN env["DEFAULT_LOCALE"].s
  ELSE IF op.args.detected.spawned.s # <<>> THEN op.args.detected.spawned.s
  ELSE IF op.args.detected.plain.s # <<>> THEN op.args.detected.plain.s
  ELSE <<"s", "w">>

\* what follows the last separator of a text
afterLast(text, separator) ==
  LET i == CHOOSE h \in 1..Len(text) :
             text[h] = separator /\ \A g \in (h + 1)..Len(text) : text[g] # separator
  IN SubSeq(text, i + 1, Len(text))

\* C14: getCountryCode(d) returns DEFAULT_COUNTRY_CODE when the Store has it;
\* otherwise what follows the last hyphen of the locale if it has a hyphen,
\* else what follows its last underscore if it has one, else d (default TZ)
C14_CountryCode ==
  op.name = "getCountryCode" =>
    IF "DEFAULT_COUNTRY_CODE" \in DOMAIN env
    THEN ret = env["DEFAULT_COUNTRY_CODE"]
    ELSE IF "-" \in Range(localeRead) THEN ret = Str(afterLast(localeRead, "-"))
    ELSE IF "_" \in Range(localeRead) THEN ret = Str(afterLast(localeRead, "_"))
    ELSE IF op.args.defaultCountryCode = Undefined THEN ret = Str(<<"T", "Z">>)
    ELSE ret = op.args.defaultCountryCode

\* the locale en-GB gives GB
C14_Witness ==
  /\ op.name = "getCountryCode"
  /\ "DEFAULT_COUNTRY_CODE" \notin DOMAIN env
  /\ "DEFAULT_LOCALE" \notin DOMAIN env
  /\ op.args.detected.spawned = Str(<<"e", "n", "-", "G", "B">>)
  /\ ret = Str(<<"G", "B">>)


\* two characters are the same letter in either case, or the same character
sameIgnoringCase(a, b) ==
  \/ a = b
  \/ \E j \in 1..Len(UpperLetters) : {a, b} = {UpperLetters[j], LowerLetters[j]}

equalIgnoringCase(s, u) ==
  Len(s) = Len(u) /\ \A i \in 1..Len(s) : sameIgnoringCase(s[i], u[i])

\* C15 as stated: is(name) is true exactly when the Store has a NODE_ENV value
\* and that value equals name ignoring letter case, for every Store state and
\* every name
C15_IsEqualsNodeEnv ==
  op.name = "is" =>
    (ret = Bool(TRUE) <=>
       /\ "NODE_ENV" \in DOMAIN env
       /\ equalIgnoringCase(env["NODE_ENV"].s, op.args.name.s))

\* C15: is(name) is true exactly when NODE_ENV, taken as the empty string
\* when the Store has no NODE_ENV, and name are equal ignoring letter case;
\* isLocal() is true exactly when isTest() or isDevelopment() is
C15_IsIgnoresCase ==
  LET nodeEnv == IF "NODE_ENV" \in DOMAIN env THEN env["NODE_ENV"].s ELSE <<>>
  IN /\ op.name = "is" => ret = Bool(equalIgnoringCase(nodeEnv, op.args.name.s))
     /\ op.name = "isTest" => ret = Bool(equalIgnoringCase(nodeEnv, <<"t", "e", "s", "t">>))
     /\ op.name = "isLocal" => ret = Bool(isTest.b \/ isDevelopment.b)

\* NODE_ENV is test and is('TEST') is true
C15_Witness ==
  /\ op.name = "is"
  /\ "NODE_ENV" \in DOMAIN env
  /\ env["NODE_ENV"] = Str(<<"t", "e", "s", "t">>)
  /\ op.args.name = Str(<<"T", "E", "S", "T">>)
  /\ ret = Bool(TRUE)


\* the .env file a first load reads, and the keys of its KEY=VALUE lines
fileRead == readFileSync(files, dotenvPath(env))

pairKeys(file) ==
  {file.lines[i].key : i \in {h \in 1..Len(file.lines) : file.lines[h].kind = "pair"}}

C17_ReadsKeepStore ==
  [][/\ (called /\ op'.name \in ReadOps) => env' = env
     /\ env' # env => op'.name \in {"set", "clear"} \/ ~called]_vars

\* a read after the load, over a Store that lacks a key the file now gives:
\* the read did not seed it
C17_Witness ==
  /\ op.name \in ReadOps \ {"get"}
  /\ called
  /\ pre = env
  /\ reads = 1
  /\ \E k \in DOMAIN fileParsed : k \notin DOMAIN env

\* C18: clear does not run the loader. After the load a key that is absent
\* stays absent until it is set, and get(K, d) returns d for it also when the
\* .env file defines K; before the load, get(K, d) of an absent key that the
\* file defines seeds K and returns the file's value
C18_ClearDoesNotLoad ==
  [][/\ op'.name = "clear" =>
          called' = called /\ reads' = reads /\ result' = result
     /\ \A k \in Keys :
          (called /\ k \notin DOMAIN env /\ k \in DOMAIN env') =>
             op'.name = "set" /\ op'.key = k
     /\ (called /\ op'.name = "get" /\ op'.key \notin DOMAIN env) =>
          ret' = op'.defaultValue /\ op'.key \notin DOMAIN env'
     /\ (/\ ~called
         /\ op'.name = "get"
         /\ op'.key \notin DOMAIN env
         /\ op'.key \in DOMAIN fileParsed) =>
          /\ ret' = Str(fileParsed[op'.key])
          /\ op'.key \in DOMAIN env'
          /\ env'[op'.key] = ret']_vars

\* get(K, d) returned d after the load seeded K from the file and a clear
\* removed it
C18_Witness ==
  /\ op.name = "get"
  /\ called
  /\ files = StartFiles
  /\ "parsed" \in DOMAIN result
  /\ op.key \in DOMAIN result.parsed
  /\ op.key \notin DOMAIN env
  /\ op.defaultValue # Undefined
  /\ ret = op.defaultValue

====
